---- MODULE Spec2Model ----
(***************************************************************************)
(* SunC (src/SunC.py): annual energy of a 1 m2 solar panel, tracking the   *)
(* sun or held at a fixed east-west / north-south tilt, and the two-phase  *)
(* grid search for the best fixed tilt.                                    *)
(*                                                                         *)
(* Numbers.  The program computes in binary floating point.  The model     *)
(* computes in fixed point: a trigonometric value, a vector component and  *)
(* an incidence cosine are integers in units of 1/One (One = 1000), and    *)
(* every product of two such values is rounded back to that unit, as a     *)
(* floating-point product is rounded.  Angles are whole degrees.  The      *)
(* efficiency is an integer in units of 1/EffScale (20 stands for 0.20).   *)
(* A time is an integer in units of 1/6 hour, the sampling interval, and   *)
(* an energy an integer in units of 1/(One * EffScale * 6) Wh, so that the *)
(* multiplication by time_interval = 1/6 hour loses nothing.               *)
(***************************************************************************)
EXTENDS Integers, Sequences, FiniteSets, TLC

VARIABLES
    pc,                         \* position of the running call
    vectors_df,                 \* sequence of sun vectors [t, x, y, z, dni]
    panel_efficiency_decimal,   \* efficiency, in units of 1/EffScale
    ew_tilt_deg,                \* calculate_energy argument: <<>> is None, <<d>> is d
    ns_tilt_deg,                \* calculate_energy argument: <<>> is None, <<d>> is d
    energy_df,                  \* result of calculate_energy: sequence of [t, enerji_wh]
    panel_normal,               \* result of get_panel_normal: <<x, y, z>>
    best_energy,                \* find_best_fixed_position: running best total
    best_ew_tilt,               \* find_best_fixed_position: running best ew tilt
    best_ns_tilt,               \* find_best_fixed_position: running best ns tilt
    ew_idx,                     \* position of the outer loop (over ew_tilt)
    ns_idx,                     \* position of the inner loop (over ns_tilt)
    fine_ew_angles,             \* the fine grid of the ew axis
    fine_ns_angles,             \* the fine grid of the ns axis
    coarse_evals,               \* number of calculate_energy calls of the coarse loop
    fine_evals,                 \* number of calculate_energy calls of the fine loop
    results,                    \* the values returned by the completed calls
    entry,                      \* the function or handler that was called first
    custom_ew_tilt,             \* calculate_and_export argument: <<>> is None
    custom_ns_tilt,             \* calculate_and_export argument: <<>> is None
    filepath,                   \* calculate_and_export argument
    tracking_energy_df,         \* calculate_and_export: energy of the tracking panel
    optimal_energy_df,          \* calculate_and_export: energy at the best fixed tilt
    custom_energy_df,           \* calculate_and_export: energy at the custom tilt
    efficiency_data,            \* create_visualizations: the ratios to tracking
    message,                    \* title of the last message box shown
    canvas,                     \* the form holds a plot canvas
    solpos,                     \* calculate_solar_vectors: the provider's samples
    form                        \* the widgets of the form: texts, checkbox, entry state

searchVars == <<best_energy, best_ew_tilt, best_ns_tilt, ew_idx, ns_idx,
                fine_ew_angles, fine_ns_angles, coarse_evals, fine_evals, results>>
energyVars == <<ew_tilt_deg, ns_tilt_deg, energy_df, panel_normal>>
inputVars  == <<vectors_df, panel_efficiency_decimal>>
appVars == <<entry, custom_ew_tilt, custom_ns_tilt, filepath, tracking_energy_df,
             optimal_energy_df, custom_energy_df, efficiency_data, message, canvas>>
formVars == <<solpos, form>>
vars == <<pc, inputVars, energyVars, searchVars, appVars, formVars>>

-----------------------------------------------------------------------------
(* Bounds of the model *)

\* longest sun-vector sequence handed to a call
MaxVectors == 2

\* number of calls of find_best_fixed_position made one after the other
MaxCalls == 2

-----------------------------------------------------------------------------
(* Fixed-point trigonometry: np.sin, np.cos, np.radians on whole degrees *)

\* round(1000 * sin(d degrees)) for d = 0..90, at index d + 1
SinTab ==
    <<0, 17, 35, 52, 70, 87, 105, 122, 139, 156, 174, 191, 208, 225, 242, 259,
      276, 292, 309, 326, 342, 358, 375, 391, 407, 423, 438, 454, 469, 485, 500,
      515, 530, 545, 559, 574, 588, 602, 616, 629, 643, 656, 669, 682, 695, 707,
      719, 731, 743, 755, 766, 777, 788, 799, 809, 819, 829, 839, 848, 857, 866,
      875, 883, 891, 899, 906, 914, 921, 927, 934, 940, 946, 951, 956, 961, 966,
      970, 974, 978, 982, 985, 988, 990, 993, 995, 996, 998, 999, 999, 1000, 1000>>

\* the fixed-point unit: sin(90 degrees) = 1.0
One == SinTab[91]

Sin(d) ==
    LET r == d % 360
    IN  IF r <= 90 THEN SinTab[r + 1]
        ELSE IF r <= 180 THEN SinTab[180 - r + 1]
        ELSE IF r <= 270 THEN 0 - SinTab[r - 180 + 1]
        ELSE 0 - SinTab[360 - r + 1]

Cos(d) == Sin(d + 90)

\* n / d rounded to the nearest integer, halves away from zero (d > 0)
RoundDiv(n, d) ==
    IF n >= 0 THEN (2 * n + d) \div (2 * d)
    ELSE 0 - ((2 * (0 - n) + d) \div (2 * d))

\* matrix (three rows) times vector, each component rounded back to 1/One
MatVec(m, v) ==
    [r \in 1..3 |-> RoundDiv(m[r][1] * v[1] + m[r][2] * v[2] + m[r][3] * v[3], One)]

\* np.dot of two vectors in units of 1/One
Dot(u, v) == RoundDiv(u[1] * v[1] + u[2] * v[2] + u[3] * v[3], One)

\* np.clip
Clip_lower_only(a, lo, hi) == IF a < lo THEN lo ELSE a
Clip(a, lo, hi) == IF a < lo THEN lo ELSE IF a > hi THEN hi ELSE a

\* np.arange(start, stop, step) for step > 0
Arange(start, stop, step) ==
    LET n == IF stop > start THEN (stop - start + step - 1) \div step ELSE 0
    IN  [k \in 1..n |-> start + (k - 1) * step]

Max(a, b) == IF a >= b THEN a ELSE b
Min(a, b) == IF a <= b THEN a ELSE b

-----------------------------------------------------------------------------
(* get_panel_normal *)

get_panel_normal(ew_tilt, ns_tilt) ==
    LET normal == <<0, 0, One>>
        Ry == << <<Cos(ew_tilt), 0, Sin(ew_tilt)>>,
                 <<0, One, 0>>,
                 <<0 - Sin(ew_tilt), 0, Cos(ew_tilt)>> >>
        Rx == << <<One, 0, 0>>,
                 <<0, Cos(ns_tilt), 0 - Sin(ns_tilt)>>,
                 <<0, Sin(ns_tilt), Cos(ns_tilt)>> >>
    IN  MatVec(Rx, MatVec(Ry, normal))

-----------------------------------------------------------------------------
(* calculate_energy *)

panel_area == 1
\* 1/6 hour, in units of 1/6 hour
time_interval == 1
\* efficiency_percent / 100.0: the units of an efficiency per 1.0
EffScale == 100

None == <<>>
Some(d) == <<d>>
IsNone(a) == a = None

\* the incidence cosine of one sun vector, in units of 1/One
cos_theta_unclipped(v, ew, ns) ==
    IF IsNone(ew) \/ IsNone(ns)
    THEN One
    ELSE Dot(<<v.x, v.y, v.z>>, get_panel_normal(ew[1], ns[1]))
cos_theta_zero_missing(v, ew, ns) ==
    IF IsNone(ew) \/ IsNone(ns) \/ ew = Some(0) \/ ns = Some(0)
    THEN One
    ELSE Clip(Dot(<<v.x, v.y, v.z>>, get_panel_normal(ew[1], ns[1])), 0, One)
cos_theta(v, ew, ns) ==
    IF IsNone(ew) \/ IsNone(ns)
    THEN One
    ELSE Clip(Dot(<<v.x, v.y, v.z>>, get_panel_normal(ew[1], ns[1])), 0, One)

\* one row per row of vectors, under the same index
calculate_energy(vectors, efficiency, ew, ns) ==
    [k \in 1..Len(vectors) |->
        [t |-> vectors[k].t,
         enerji_wh |-> vectors[k].dni * cos_theta(vectors[k], ew, ns)
                          * efficiency * panel_area * time_interval]]

RECURSIVE SumFrom(_, _)
SumFrom(df, k) == IF k > Len(df) THEN 0 ELSE df[k].enerji_wh + SumFrom(df, k + 1)

\* energy_df['enerji_wh'].sum()
total_energy(df) == SumFrom(df, 1)

\* the total of one grid evaluation
Evaluate(vectors, efficiency, ew_tilt, ns_tilt) ==
    total_energy(calculate_energy(vectors, efficiency, Some(ew_tilt), Some(ns_tilt)))

-----------------------------------------------------------------------------
(* calculate_solar_vectors *)

\* a position sample of the provider: [t, apparent_zenith, azimuth, dni]
\* x east, y north, z up, each rounded back to 1/One; only dni > 0 is kept
SunVector(s) ==
    [t |-> s.t,
     x |-> RoundDiv(Sin(s.apparent_zenith) * Sin(s.azimuth), One),
     y |-> RoundDiv(Sin(s.apparent_zenith) * Cos(s.azimuth), One),
     z |-> Cos(s.apparent_zenith),
     dni |-> s.dni]

\* the selection, had the test been dni >= 0
RECURSIVE SelectDaylight_ge(_, _)
SelectDaylight_ge(samples, k) ==
    IF k > Len(samples) THEN <<>>
    ELSE IF samples[k].dni >= 0
         THEN <<samples[k]>> \o SelectDaylight_ge(samples, k + 1)
         ELSE SelectDaylight_ge(samples, k + 1)

RECURSIVE SelectDaylight(_, _)
SelectDaylight(samples, k) ==
    IF k > Len(samples) THEN <<>>
    ELSE IF samples[k].dni > 0
         THEN <<samples[k]>> \o SelectDaylight(samples, k + 1)
         ELSE SelectDaylight(samples, k + 1)

calculate_solar_vectors(samples) ==
    LET daylight_solpos == SelectDaylight(samples, 1)
    IN  [k \in 1..Len(daylight_solpos) |-> SunVector(daylight_solpos[k])]

-----------------------------------------------------------------------------
(* Inputs *)

\* sky positions and clear-sky irradiance of daylight samples:
\* sun overhead, on the eastern horizon, and in the south off the 5-degree grid
DaylightKinds ==
    { [apparent_zenith |-> 0,  azimuth |-> 0,   dni |-> 900],
      [apparent_zenith |-> 90, azimuth |-> 90,  dni |-> 400],
      [apparent_zenith |-> 47, azimuth |-> 180, dni |-> 800] }

\* the sequences of at most MaxVectors kinds, stamped 1, 2, ... in order
Stamped(Kinds) ==
    UNION { { [k \in 1..n |-> [t |-> k,
                               apparent_zenith |-> q[k].apparent_zenith,
                               azimuth |-> q[k].azimuth,
                               dni |-> q[k].dni]] : q \in [1..n -> Kinds] }
            : n \in 0..MaxVectors }

\* the sun-vector sequences handed to a direct call
VectorSeqs == { calculate_solar_vectors(q) : q \in Stamped(DaylightKinds) }

\* efficiencies of a direct call, which validates nothing: -0.10, 0 and 0.20
DirectEfficiencies == {0 - 10, 0, 20}

\* a sample without irradiance (sun below the horizon), and a low sun in the
\* south-south-east whose rounded components give a dot product above One
NightKind == [apparent_zenith |-> 120, azimuth |-> 0, dni |-> 0]
LowSunKind == [apparent_zenith |-> 75, azimuth |-> 170, dni |-> 700]

\* the sun-vector sequences handed to a direct call of calculate_energy,
\* which filters nothing: rows of dni = 0 included
EnergyVectorSeqs ==
    { [k \in 1..Len(q) |-> SunVector(q[k])]
        : q \in Stamped(DaylightKinds \cup {NightKind, LowSunKind}) }

\* efficiencies of a direct call of calculate_energy: -0.10, 0.20, 1.00, 1.50
EnergyEfficiencies == {0 - 10, 20, 100, 150}

\* tilt arguments of a direct call: None, or a number of degrees
TiltArgs == {None} \cup { Some(d) : d \in {0 - 90, 0, 10, 75, 120} }

-----------------------------------------------------------------------------
(* find_best_fixed_position *)

coarse_angles == Arange(0 - 90, 91, 5)

\* the comparison that lets a candidate replace the running best
Better_ge(total, best) == total >= best
Better_lt(total, best) == total < best
Better(total, best) == total > best

\* the local grid around a coarse winner on one axis
FineAngles_unclamped(best_tilt) == Arange(best_tilt - 5, best_tilt + 6, 1)
FineAngles_wide(best_tilt) == Arange(Max(0 - 90, best_tilt - 10), Min(91, best_tilt + 11), 1)
FineAngles(best_tilt) == Arange(Max(0 - 90, best_tilt - 5), Min(91, best_tilt + 6), 1)

\* the locals at entry, had the best total outlived the previous call
SearchEntry_stale ==
    /\ best_energy' = best_energy
    /\ best_ew_tilt' = 0
    /\ best_ns_tilt' = 0
    /\ ew_idx' = 1
    /\ ns_idx' = 1
    /\ fine_ew_angles' = <<>>
    /\ fine_ns_angles' = <<>>
    /\ coarse_evals' = 0
    /\ fine_evals' = 0

\* the locals as the function sets them before the coarse loop
SearchEntry ==
    /\ best_energy' = 0
    /\ best_ew_tilt' = 0
    /\ best_ns_tilt' = 0
    /\ ew_idx' = 1
    /\ ns_idx' = 1
    /\ fine_ew_angles' = <<>>
    /\ fine_ns_angles' = <<>>
    /\ coarse_evals' = 0
    /\ fine_evals' = 0

\* one evaluation of a loop over ews x nss, and the move to the next one
GridStep(ews, nss, after) ==
    LET ew_tilt == ews[ew_idx]
        ns_tilt == nss[ns_idx]
        total == Evaluate(vectors_df, panel_efficiency_decimal, ew_tilt, ns_tilt)
    IN  /\ IF Better(total, best_energy)
           THEN /\ best_energy' = total
                /\ best_ew_tilt' = ew_tilt
                /\ best_ns_tilt' = ns_tilt
           ELSE UNCHANGED <<best_energy, best_ew_tilt, best_ns_tilt>>
        /\ IF ns_idx < Len(nss)
           THEN /\ ns_idx' = ns_idx + 1
                /\ UNCHANGED <<ew_idx, pc>>
           ELSE IF ew_idx < Len(ews)
                THEN /\ ew_idx' = ew_idx + 1
                     /\ ns_idx' = 1
                     /\ UNCHANGED pc
                ELSE /\ pc' = after
                     /\ UNCHANGED <<ew_idx, ns_idx>>

CoarseStep ==
    /\ pc = "coarse"
    /\ GridStep(coarse_angles, coarse_angles, "coarse_done")
    /\ coarse_evals' = coarse_evals + 1
    /\ UNCHANGED <<fine_ew_angles, fine_ns_angles, fine_evals, results>>
    /\ UNCHANGED <<formVars, inputVars, energyVars, appVars>>

FineGrid ==
    /\ pc = "coarse_done"
    /\ fine_ew_angles' = FineAngles(best_ew_tilt)
    /\ fine_ns_angles' = FineAngles(best_ns_tilt)
    /\ ew_idx' = 1
    /\ ns_idx' = 1
    /\ pc' = "fine"
    /\ UNCHANGED <<best_energy, best_ew_tilt, best_ns_tilt, coarse_evals, fine_evals, results>>
    /\ UNCHANGED <<formVars, inputVars, energyVars, appVars>>

FineStep ==
    /\ pc = "fine"
    /\ GridStep(fine_ew_angles, fine_ns_angles, "return")
    /\ fine_evals' = fine_evals + 1
    /\ UNCHANGED <<fine_ew_angles, fine_ns_angles, coarse_evals, results>>
    /\ UNCHANGED <<formVars, inputVars, energyVars, appVars>>

\* the value of the return statement
ReturnValue_swapped == <<best_ns_tilt, best_ew_tilt>>
ReturnValue == <<best_ew_tilt, best_ns_tilt>>

Return ==
    /\ pc = "return"
    /\ results' = Append(results, ReturnValue)
    /\ pc' = IF entry = "find_best_fixed_position" THEN "done" ELSE "optimal"
    /\ UNCHANGED <<best_energy, best_ew_tilt, best_ns_tilt, ew_idx, ns_idx,
                   fine_ew_angles, fine_ns_angles, coarse_evals, fine_evals>>
    /\ UNCHANGED <<formVars, inputVars, energyVars, appVars>>

\* str(datetime.datetime.now().year), the same at construction and at reset
current_year == "2026"
default_tz_display == "GMT+3"

\* the widgets as SolarTiltPowerApp.__init__ leaves them: the tilt entries
\* receive "0" while still editable and are then disabled by
\* toggle_custom_position, the checkbox variable being False
InitialForm ==
    [name |-> "", lat |-> "", lon |-> "", tz_combo |-> default_tz_display,
     year_entry |-> current_year, efficiency_entry |-> "20",
     custom_position_var |-> FALSE,
     ew_tilt_entry |-> "0", ns_tilt_entry |-> "0",
     ew_tilt_state |-> "disabled", ns_tilt_state |-> "disabled"]

\* no provider sample is held and the form is as constructed
idleForm ==
    /\ solpos = <<>>
    /\ form = InitialForm

\* nothing of the application is in use
idleApp(e) ==
    /\ entry = e
    /\ custom_ew_tilt = None
    /\ custom_ns_tilt = None
    /\ filepath = ""
    /\ tracking_energy_df = <<>>
    /\ optimal_energy_df = <<>>
    /\ custom_energy_df = <<>>
    /\ efficiency_data = <<>>
    /\ message = ""
    /\ canvas = FALSE

\* a direct call find_best_fixed_position(vectors_df, panel_efficiency_decimal)
InitSearch ==
    /\ vectors_df \in VectorSeqs
    /\ panel_efficiency_decimal \in DirectEfficiencies
    /\ pc = "coarse"
    /\ best_energy = 0
    /\ best_ew_tilt = 0
    /\ best_ns_tilt = 0
    /\ ew_idx = 1
    /\ ns_idx = 1
    /\ fine_ew_angles = <<>>
    /\ fine_ns_angles = <<>>
    /\ coarse_evals = 0
    /\ fine_evals = 0
    /\ results = <<>>
    /\ ew_tilt_deg = None
    /\ ns_tilt_deg = None
    /\ energy_df = <<>>
    /\ panel_normal = <<>>
    /\ idleApp("find_best_fixed_position")
    /\ idleForm

NextSearch == CoarseStep \/ FineGrid \/ FineStep \/ Return

SpecSearch == InitSearch /\ [][NextSearch]_vars

\* a direct call on sun vectors near the horizon: on the eastern horizon, and
\* 2 degrees above the western one, where every coarse orientation of
\* ew = -90 has the same total whatever its ns
LowWestKind == [apparent_zenith |-> 88, azimuth |-> 270, dni |-> 900]
HorizonKinds == { [apparent_zenith |-> 90, azimuth |-> 90, dni |-> 400], LowWestKind }
HorizonVectorSeqs == { calculate_solar_vectors(q) : q \in Stamped(HorizonKinds) }

InitSearchHorizon ==
    /\ vectors_df \in HorizonVectorSeqs
    /\ panel_efficiency_decimal = 20
    /\ pc = "coarse"
    /\ best_energy = 0
    /\ best_ew_tilt = 0
    /\ best_ns_tilt = 0
    /\ ew_idx = 1
    /\ ns_idx = 1
    /\ fine_ew_angles = <<>>
    /\ fine_ns_angles = <<>>
    /\ coarse_evals = 0
    /\ fine_evals = 0
    /\ results = <<>>
    /\ ew_tilt_deg = None
    /\ ns_tilt_deg = None
    /\ energy_df = <<>>
    /\ panel_normal = <<>>
    /\ idleApp("find_best_fixed_position")
    /\ idleForm

SpecSearchHorizon == InitSearchHorizon /\ [][NextSearch]_vars

\* find_best_fixed_position called again on the same arguments once the
\* previous call has returned
CallAgain ==
    /\ pc = "done"
    /\ Len(results) < MaxCalls
    /\ SearchEntry
    /\ pc' = "coarse"
    /\ UNCHANGED results
    /\ UNCHANGED <<formVars, inputVars, energyVars, appVars>>

InitRepeat ==
    /\ vectors_df \in VectorSeqs
    /\ panel_efficiency_decimal = 20
    /\ pc = "coarse"
    /\ best_energy = 0
    /\ best_ew_tilt = 0
    /\ best_ns_tilt = 0
    /\ ew_idx = 1
    /\ ns_idx = 1
    /\ fine_ew_angles = <<>>
    /\ fine_ns_angles = <<>>
    /\ coarse_evals = 0
    /\ fine_evals = 0
    /\ results = <<>>
    /\ ew_tilt_deg = None
    /\ ns_tilt_deg = None
    /\ energy_df = <<>>
    /\ panel_normal = <<>>
    /\ idleApp("find_best_fixed_position")
    /\ idleForm

NextRepeat == NextSearch \/ CallAgain

SpecRepeat == InitRepeat /\ [][NextRepeat]_vars

-----------------------------------------------------------------------------
(* Properties of find_best_fixed_position *)

\* the orientations of a grid, and the total of each
Grid(ews, nss) == { <<ews[i], nss[j]>> : i \in 1..Len(ews), j \in 1..Len(nss) }
CoarseGrid == Grid(coarse_angles, coarse_angles)
FineGridNow == Grid(fine_ew_angles, fine_ns_angles)
TotalAt(p) == Evaluate(vectors_df, panel_efficiency_decimal, p[1], p[2])

SetMax(S) == CHOOSE m \in S : \A x \in S : x <= m
SetMin(S) == CHOOSE m \in S : \A x \in S : m <= x

\* the orientation of G that a row-major scan (ew ascending, then ns ascending)
\* meets first among those of the largest total
FirstOfMax(G) ==
    LET M == SetMax({ TotalAt(p) : p \in G })
        Arg == { p \in G : TotalAt(p) = M }
        e0 == SetMin({ p[1] : p \in Arg })
    IN  <<e0, SetMin({ p[2] : p \in { q \in Arg : q[1] = e0 } })>>

best == <<best_ew_tilt, best_ns_tilt>>
last_result == results[Len(results)]
ValidEfficiency == 0 < panel_efficiency_decimal /\ panel_efficiency_decimal <= EffScale

\* C1 as stated: at the end of the coarse phase the held orientation is the one
\* the row-major scan met first among those of the largest total (stated for
\* the efficiencies in (0, 1]).
C1_FirstOfEqualMaxKept ==
    (pc = "coarse_done" /\ ValidEfficiency) => best = FirstOfMax(CoarseGrid)

\* C1 amended: the running best is replaced only by a strictly greater total,
\* in both phases, so an equal total never replaces it; at the end of the
\* coarse phase the held orientation is the first in row-major order among
\* those of the largest total when that total exceeds the initial best 0, and
\* the initial (0, 0) with best energy 0 otherwise.
C1_ReplacedOnlyByGreater ==
    /\ [](pc = "coarse_done" =>
            LET M == SetMax({ TotalAt(p) : p \in CoarseGrid })
            IN  IF M > 0
                THEN best = FirstOfMax(CoarseGrid) /\ best_energy = M
                ELSE best = <<0, 0>> /\ best_energy = 0)
    /\ [][ <<best, best_energy>>' # <<best, best_energy>>
             => /\ best_energy' > best_energy
                /\ pc \in {"coarse", "fine"}
                /\ best_energy' = Evaluate(vectors_df, panel_efficiency_decimal,
                                            best_ew_tilt', best_ns_tilt') ]_vars

\* C1 witness: the coarse phase ended on a positive total that another
\* coarse orientation equals.
C1_Witness ==
    /\ pc = "coarse_done"
    /\ best_energy > 0
    /\ \E p \in CoarseGrid : p # best /\ TotalAt(p) = best_energy

\* C2: on an empty sequence, or one on which every evaluated orientation
\* totals 0, the call runs all 1369 coarse and 121 fine evaluations and
\* returns (0, 0) with best energy 0.
C2_ZeroTotalsReturnOrigin ==
    (/\ pc = "done"
     /\ \/ vectors_df = <<>>
        \/ \A p \in CoarseGrid \cup FineGridNow : TotalAt(p) = 0)
    => /\ last_result = <<0, 0>>
       /\ best_energy = 0
       /\ coarse_evals = Len(coarse_angles) * Len(coarse_angles)
       /\ fine_evals = Len(fine_ew_angles) * Len(fine_ns_angles)
       /\ fine_evals = 121

C2_Witness ==
    /\ pc = "done"
    /\ vectors_df = <<>>
    /\ last_result = <<0, 0>>

\* C2 witness of the second case: a sequence that is not empty, all totals 0
C2_WitnessZeroTotals ==
    /\ pc = "done"
    /\ vectors_df # <<>>
    /\ \A p \in CoarseGrid \cup FineGridNow : TotalAt(p) = 0
    /\ last_result = <<0, 0>>

\* C3: the best energy held at return is >= the total at (0, 0) and >= the
\* total of every coarse-grid orientation, and the running best never
\* decreases from one evaluation to the next.
C3_BestDominates ==
    /\ [](pc \in {"return", "done"} =>
            /\ best_energy >= TotalAt(<<0, 0>>)
            /\ \A p \in CoarseGrid : best_energy >= TotalAt(p))
    /\ [](pc = "coarse_done" => \A p \in CoarseGrid : best_energy >= TotalAt(p))
    /\ [][best_energy' >= best_energy]_vars

\* C3 witness: the fine phase ended strictly above every coarse total.
C3_Witness ==
    /\ pc = "return"
    /\ \A p \in CoarseGrid : best_energy > TotalAt(p)

Degrees == (0 - 90)..90
Evaluated == CoarseGrid \cup FineGridNow
Near(a, b) == a - b <= 5 /\ b - a <= 5

\* C15: the held best orientation is always a pair of whole degrees in
\* [-90, 90]; it changes only to the orientation being evaluated, a point of
\* the 5-degree coarse grid in the coarse phase and a point of the fine window
\* in the fine phase; the fine window lies within 5 degrees of the coarse
\* winner on each axis and stays as built; so the returned orientation is a
\* coarse-grid point or a point of the fine window, whatever the totals of
\* the orientations that were never evaluated.
C15_OnlyEvaluatedReturned ==
    /\ [](best_ew_tilt \in Degrees /\ best_ns_tilt \in Degrees)
    /\ [](pc \in {"coarse", "coarse_done"} =>
            best_ew_tilt % 5 = 0 /\ best_ns_tilt % 5 = 0)
    /\ [](pc \in {"fine", "return", "done"} =>
            \/ best_ew_tilt % 5 = 0 /\ best_ns_tilt % 5 = 0
            \/ best \in FineGridNow)
    /\ [](pc = "done" =>
            /\ last_result = best
            /\ last_result \in Evaluated)
    /\ [][pc = "coarse_done" =>
            /\ \A k \in 1..Len(fine_ew_angles') : Near(fine_ew_angles'[k], best_ew_tilt)
            /\ \A k \in 1..Len(fine_ns_angles') : Near(fine_ns_angles'[k], best_ns_tilt)
            /\ best_ew_tilt' = best_ew_tilt
            /\ best_ns_tilt' = best_ns_tilt]_vars
    /\ [][(pc \in {"fine", "return"}) =>
            /\ fine_ew_angles' = fine_ew_angles
            /\ fine_ns_angles' = fine_ns_angles]_vars
    /\ [][(best_ew_tilt' # best_ew_tilt \/ best_ns_tilt' # best_ns_tilt) =>
            \/ /\ pc = "coarse"
               /\ best_ew_tilt' = coarse_angles[ew_idx]
               /\ best_ns_tilt' = coarse_angles[ns_idx]
            \/ /\ pc = "fine"
               /\ best_ew_tilt' = fine_ew_angles[ew_idx]
               /\ best_ns_tilt' = fine_ns_angles[ns_idx]]_vars

\* C15 witness: a call returned while the orientation (-87, 35), of neither
\* grid, has a total strictly above the total of every evaluated orientation.
C15_Witness ==
    /\ pc = "done"
    /\ <<0 - 87, 35>> \notin Evaluated
    /\ last_result # <<0 - 87, 35>>
    /\ TotalAt(<<0 - 87, 35>>) > best_energy
    /\ \A p \in Evaluated : TotalAt(<<0 - 87, 35>>) > TotalAt(p)

\* C12: calls of find_best_fixed_position made one after the other on the
\* same arguments return the same pair; every call starts from best energy 0
\* at (0, 0) with no fine window and no evaluation counted, whatever the
\* previous call left; and no step changes the sun vectors or the efficiency.
C12_RepeatedCallsAgree ==
    /\ [](\A i \in 1..Len(results) : results[i] = results[1])
    /\ [](Len(results) <= MaxCalls)
    /\ [][pc = "done" =>
            /\ pc' = "coarse"
            /\ best_energy' = 0
            /\ best_ew_tilt' = 0
            /\ best_ns_tilt' = 0
            /\ ew_idx' = 1
            /\ ns_idx' = 1
            /\ fine_ew_angles' = <<>>
            /\ coarse_evals' = 0
            /\ fine_evals' = 0
            /\ results' = results]_vars
    /\ [][vectors_df' = vectors_df
            /\ panel_efficiency_decimal' = panel_efficiency_decimal]_vars

\* C12 witness: a second call returned on sun vectors whose best orientation
\* is not the initial (0, 0).
C12_Witness ==
    /\ pc = "done"
    /\ Len(results) = 2
    /\ results[2] = results[1]
    /\ results[1] # <<0, 0>>
    /\ best_energy > 0

IntRange(lo, hi) == [k \in 1..(hi - lo + 1) |-> lo + k - 1]

\* C4: the fine grid of each axis is the integers from max(-90, best - 5) to
\* min(90, best + 5) around the coarse winner, 6 to 11 values inside
\* [-90, 90]; 1369 coarse evaluations come first and at most 121 fine ones
\* follow.
C4_FineWindowClamped ==
    /\ [](pc \in {"fine", "return", "done"} =>
            /\ \A k \in 1..Len(fine_ew_angles) :
                  fine_ew_angles[k] >= 0 - 90 /\ fine_ew_angles[k] <= 90
            /\ \A k \in 1..Len(fine_ns_angles) :
                  fine_ns_angles[k] >= 0 - 90 /\ fine_ns_angles[k] <= 90
            /\ Len(fine_ew_angles) \in 6..11
            /\ Len(fine_ns_angles) \in 6..11
            /\ coarse_evals = 1369
            /\ fine_evals <= 121
            /\ fine_evals <= Len(fine_ew_angles) * Len(fine_ns_angles))
    /\ [](pc = "coarse" => fine_evals = 0 /\ coarse_evals < 1369)
    /\ [](pc \in {"return", "done"} =>
            fine_evals = Len(fine_ew_angles) * Len(fine_ns_angles))
    /\ [][pc = "coarse_done" =>
            /\ fine_ew_angles' =
                 IntRange(Max(0 - 90, best_ew_tilt - 5), Min(90, best_ew_tilt + 5))
            /\ fine_ns_angles' =
                 IntRange(Max(0 - 90, best_ns_tilt - 5), Min(90, best_ns_tilt + 5))]_vars

\* C4 witness: a coarse winner on the boundary, whose window narrowed to 6.
C4_Witness ==
    /\ pc = "done"
    /\ Len(fine_ew_angles) = 6
    /\ fine_ew_angles[6] = 90
    /\ Len(fine_ns_angles) = 6
    /\ fine_evals = 36

-----------------------------------------------------------------------------
(* Direct calls of calculate_energy and of get_panel_normal *)

idleSearch ==
    /\ best_energy = 0
    /\ best_ew_tilt = 0
    /\ best_ns_tilt = 0
    /\ ew_idx = 1
    /\ ns_idx = 1
    /\ fine_ew_angles = <<>>
    /\ fine_ns_angles = <<>>
    /\ coarse_evals = 0
    /\ fine_evals = 0
    /\ results = <<>>

\* a direct call calculate_energy(vectors_df, efficiency, ew_tilt_deg, ns_tilt_deg)
InitEnergy ==
    /\ vectors_df \in EnergyVectorSeqs
    /\ panel_efficiency_decimal \in EnergyEfficiencies
    /\ ew_tilt_deg \in TiltArgs
    /\ ns_tilt_deg \in TiltArgs
    /\ energy_df = <<>>
    /\ panel_normal = <<>>
    /\ pc = "call_energy"
    /\ idleSearch
    /\ idleApp("calculate_energy")
    /\ idleForm

CalculateEnergy ==
    /\ pc = "call_energy"
    /\ energy_df' = calculate_energy(vectors_df, panel_efficiency_decimal,
                                     ew_tilt_deg, ns_tilt_deg)
    /\ pc' = "energy_returned"
    /\ UNCHANGED <<formVars, inputVars, ew_tilt_deg, ns_tilt_deg, panel_normal, searchVars, appVars>>

NextEnergy == CalculateEnergy

SpecEnergy == InitEnergy /\ [][NextEnergy]_vars

\* a direct call get_panel_normal(ew_tilt_deg, ns_tilt_deg) on valid tilts
InitNormal ==
    /\ vectors_df = <<>>
    /\ panel_efficiency_decimal = 20
    /\ ew_tilt_deg \in { Some(d) : d \in (0 - 90)..90 }
    /\ ns_tilt_deg \in { Some(d) : d \in (0 - 90)..90 }
    /\ energy_df = <<>>
    /\ panel_normal = <<>>
    /\ pc = "call_normal"
    /\ idleSearch
    /\ idleApp("get_panel_normal")
    /\ idleForm

GetPanelNormal ==
    /\ pc = "call_normal"
    /\ panel_normal' = get_panel_normal(ew_tilt_deg[1], ns_tilt_deg[1])
    /\ pc' = "normal_returned"
    /\ UNCHANGED <<formVars, inputVars, ew_tilt_deg, ns_tilt_deg, energy_df, searchVars, appVars>>

NextNormal == GetPanelNormal

SpecNormal == InitNormal /\ [][NextNormal]_vars

-----------------------------------------------------------------------------
(* calculate_solar_vectors on the samples of the provider *)

\* a sample of the twilight, without irradiance, and one of the first light,
\* whose clear-sky irradiance is the smallest above 0
TwilightKind == [apparent_zenith |-> 93, azimuth |-> 280, dni |-> 0]
FirstLightKind == [apparent_zenith |-> 89, azimuth |-> 95, dni |-> 1]

\* what get_solarposition and get_clearsky return: samples of the day and of
\* the night in any order of kinds, stamped in order
SolposSeqs ==
    Stamped(DaylightKinds \cup {NightKind, TwilightKind, FirstLightKind,
                                LowSunKind, LowWestKind})

InitVectors ==
    /\ solpos \in SolposSeqs
    /\ form = InitialForm
    /\ vectors_df = <<>>
    /\ panel_efficiency_decimal = 20
    /\ pc = "call_vectors"
    /\ ew_tilt_deg = None
    /\ ns_tilt_deg = None
    /\ energy_df = <<>>
    /\ panel_normal = <<>>
    /\ idleSearch
    /\ idleApp("calculate_solar_vectors")

CalculateSolarVectors ==
    /\ pc = "call_vectors"
    /\ vectors_df' = calculate_solar_vectors(solpos)
    /\ pc' = "vectors_returned"
    /\ UNCHANGED <<formVars, panel_efficiency_decimal, energyVars, searchVars, appVars>>

NextVectors == CalculateSolarVectors

SpecVectors == InitVectors /\ [][NextVectors]_vars

\* the samples of positive irradiance, and the place of sample i among them
Daylight == { i \in 1..Len(solpos) : solpos[i].dni > 0 }
RankOf(i) == Cardinality({ j \in Daylight : j <= i })

\* C11: calculate_solar_vectors keeps a sample if and only if its DNI is
\* strictly greater than 0: every output row has DNI > 0, the output has one
\* row per sample of DNI > 0 and no other, the row of a kept sample stands at
\* the place the sample has among the kept ones (the order of the input), and
\* the output is no longer than the input.
C11_DaylightOnlyInOrder ==
    pc = "vectors_returned" =>
        /\ \A k \in 1..Len(vectors_df) : vectors_df[k].dni > 0
        /\ Len(vectors_df) = Cardinality(Daylight)
        /\ Len(vectors_df) <= Len(solpos)
        /\ \A i \in Daylight : vectors_df[RankOf(i)] = SunVector(solpos[i])
        /\ \A i \in 1..Len(solpos) :
              (solpos[i].dni > 0) <=> (\E k \in 1..Len(vectors_df) : vectors_df[k].t = solpos[i].t)
        /\ \A k, l \in 1..Len(vectors_df) : k < l => vectors_df[k].t < vectors_df[l].t

\* C11 witness: a sample without irradiance was dropped and the sample after
\* it was kept.
C11_Witness ==
    /\ pc = "vectors_returned"
    /\ Len(solpos) = 2
    /\ solpos[1].dni = 0
    /\ solpos[2].dni > 0
    /\ Len(vectors_df) = 1
    /\ vectors_df[1].t = 2

-----------------------------------------------------------------------------
(* Properties of calculate_energy and get_panel_normal *)

NonNegativeDni == \A k \in 1..Len(vectors_df) : vectors_df[k].dni >= 0
FixedMode == ~IsNone(ew_tilt_deg) /\ ~IsNone(ns_tilt_deg)
TrackingTotal ==
    total_energy(calculate_energy(vectors_df, panel_efficiency_decimal, None, None))

\* C5: for DNI >= 0 and an efficiency in (0, 1], the tracking total is >= the
\* total of every fixed orientation: of the one the call was given, and seen
\* from a tracking call, of every pair of the tilts a call is given.
C5_TrackingDominatesFixed ==
    (pc = "energy_returned" /\ ValidEfficiency /\ NonNegativeDni) =>
        /\ FixedMode => TrackingTotal >= total_energy(energy_df)
        /\ ~FixedMode =>
              /\ total_energy(energy_df) = TrackingTotal
              /\ \A ew, ns \in TiltArgs \ {None} :
                    total_energy(energy_df) >= TotalAt(<<ew[1], ns[1]>>)

\* C5 witness: a fixed orientation returned a positive total strictly below
\* the tracking total.
C5_Witness ==
    /\ pc = "energy_returned"
    /\ ValidEfficiency
    /\ FixedMode
    /\ total_energy(energy_df) > 0
    /\ TrackingTotal > total_energy(energy_df)

\* C10: one energy row per sun vector, in the input order under the same
\* timestamps, and for DNI >= 0 and an efficiency in (0, 1] no energy is
\* negative, in tracking mode and for every fixed orientation.
C10_OneRowPerVectorNonNegative ==
    pc = "energy_returned" =>
        /\ Len(energy_df) = Len(vectors_df)
        /\ \A k \in 1..Len(vectors_df) : energy_df[k].t = vectors_df[k].t
        /\ (ValidEfficiency /\ NonNegativeDni) =>
              \A k \in 1..Len(energy_df) : energy_df[k].enerji_wh >= 0

\* C10 witness: two rows came back, one of them 0 for a sun behind the panel
\* and the other positive.
C10_Witness ==
    /\ pc = "energy_returned"
    /\ ValidEfficiency
    /\ FixedMode
    /\ Len(energy_df) = 2
    /\ vectors_df[1].dni > 0
    /\ energy_df[1].enerji_wh = 0
    /\ energy_df[2].enerji_wh > 0

\* the row of energy_df for sun vector k at incidence cosine c
RowAt(k, c) ==
    [t |-> vectors_df[k].t,
     enerji_wh |-> vectors_df[k].dni * c * panel_efficiency_decimal]

\* clip(dot(sun, normal), 0, 1) for sun vector k and the tilts ew, ns
FixedCosine(k, ew, ns) ==
    LET d == Dot(<<vectors_df[k].x, vectors_df[k].y, vectors_df[k].z>>,
                 get_panel_normal(ew, ns))
    IN  IF d < 0 THEN 0 ELSE IF d > One THEN One ELSE d

\* C14: calculate_energy uses the fixed cosine clip(dot(sun, normal), 0, 1)
\* exactly when both tilts are supplied, a tilt of 0 included; with one tilt
\* or none supplied every row has the tracking cosine 1, and the call is not
\* rejected.
C14_FixedIffBothTilts ==
    pc = "energy_returned" =>
        /\ Len(energy_df) = Len(vectors_df)
        /\ \A k \in 1..Len(vectors_df) :
              energy_df[k] =
                 IF ew_tilt_deg # None /\ ns_tilt_deg # None
                 THEN RowAt(k, FixedCosine(k, ew_tilt_deg[1], ns_tilt_deg[1]))
                 ELSE RowAt(k, One)

\* C14 witness: a call with ns_tilt_deg = 0 and no ew_tilt_deg returned the
\* tracking energy, which is not the energy of the orientation (0, 0).
C14_Witness ==
    /\ pc = "energy_returned"
    /\ ew_tilt_deg = None
    /\ ns_tilt_deg = Some(0)
    /\ energy_df = calculate_energy(vectors_df, panel_efficiency_decimal, None, None)
    /\ total_energy(energy_df) > TotalAt(<<0, 0>>)
    /\ TotalAt(<<0, 0>>) > 0

\* C14 witness of the other half: both tilts 0 is a fixed orientation, below
\* the tracking total.
C14_WitnessZeroTilts ==
    /\ pc = "energy_returned"
    /\ ew_tilt_deg = Some(0)
    /\ ns_tilt_deg = Some(0)
    /\ total_energy(energy_df) > 0
    /\ total_energy(energy_df) < TrackingTotal

\* C6 as stated: a positive ns_tilt gives the returned normal a positive north
\* (y) component, normal(0, 90) = (0, 1, 0), and a positive ew_tilt a positive
\* east (x) component, normal(90, 0) = (1, 0, 0).
C6_PositiveNsTiltsNorth ==
    pc = "normal_returned" =>
        LET ew == ew_tilt_deg[1]
            ns == ns_tilt_deg[1]
        IN  /\ (ns > 0 /\ ew > 0 - 90 /\ ew < 90) =>
                  /\ panel_normal[2] >= 0
                  \* positive wherever it is not below the rounding unit
                  /\ Cos(ew) * Sin(ns) >= One => panel_normal[2] > 0
            /\ (ew = 0 /\ ns = 90) => panel_normal = <<0, One, 0>>
            /\ ew > 0 => panel_normal[1] > 0
            /\ (ew = 90 /\ ns = 0) => panel_normal = <<One, 0, 0>>

\* C6, what get_panel_normal does instead: Ry(ew_tilt) then Rx(ns_tilt) gives
\* (sin ew, -cos ew sin ns, cos ew cos ns), so a positive ns_tilt turns the
\* normal to the south.
C6_PositiveNsTiltsSouth ==
    pc = "normal_returned" =>
        LET ew == ew_tilt_deg[1]
            ns == ns_tilt_deg[1]
        IN  /\ panel_normal[1] = Sin(ew)
            /\ (ns > 0 /\ ew > 0 - 90 /\ ew < 90) => panel_normal[2] <= 0
            /\ (ns > 5 /\ ew > 0 - 85 /\ ew < 85) => panel_normal[2] < 0
            /\ (ew = 0 /\ ns = 90) => panel_normal = <<0, 0 - One, 0>>
            /\ (ew = 90 /\ ns = 0) => panel_normal = <<One, 0, 0>>

-----------------------------------------------------------------------------
(* The application: on_calculate_click, calculate_and_export,
   create_visualizations *)

\* what the solar-position provider returns for a site and a year: samples
\* with the sun overhead and samples of the night, stamped in order
ProviderSeqs == Stamped({ [apparent_zenith |-> 0, azimuth |-> 0, dni |-> 900], NightKind })

\* the custom tilts of a direct call of calculate_and_export
DirectCustomTilts == { <<None, None>>, <<Some(120), Some(0)>>, <<None, Some(0)>> }

TiltInRange(d) == 0 - 90 <= d /\ d <= 90

InitApp ==
    /\ pc = "idle"
    /\ vectors_df = <<>>
    /\ panel_efficiency_decimal = 0
    /\ ew_tilt_deg = None
    /\ ns_tilt_deg = None
    /\ energy_df = <<>>
    /\ panel_normal = <<>>
    /\ idleSearch
    /\ idleApp("")
    /\ idleForm

\* the button handler, up to the call of calculate_and_export.  The entries
\* hold numbers; efficiency_percent / 100.0 in units of 1/EffScale is the
\* number of efficiency_percent.
OnCalculateClick ==
    /\ pc = "idle"
    /\ entry' = "on_calculate_click"
    /\ \E start_year \in {1900, 2024}, efficiency_percent \in {0, 20, 150},
          custom_position_var \in BOOLEAN, ew_entry \in {10, 120}, ns_entry \in {75},
          fields_filled \in BOOLEAN, save_path \in {"", "out.xlsx"} :
         IF ~(0 < efficiency_percent /\ efficiency_percent <= 100)
         THEN \* ValueError, caught by the handler's own except clause
              /\ panel_efficiency_decimal' = efficiency_percent
              /\ message' = "Girdi Hatasi"
              /\ pc' = "finished"
              /\ UNCHANGED <<custom_ew_tilt, custom_ns_tilt, filepath>>
         ELSE IF start_year < 1950 \/ start_year > 2100
         THEN /\ panel_efficiency_decimal' = efficiency_percent
              /\ message' = "Girdi Hatasi"
              /\ pc' = "finished"
              /\ UNCHANGED <<custom_ew_tilt, custom_ns_tilt, filepath>>
         ELSE IF custom_position_var
                 /\ ~(TiltInRange(ew_entry) /\ TiltInRange(ns_entry))
         THEN /\ panel_efficiency_decimal' = efficiency_percent
              /\ custom_ew_tilt' = Some(ew_entry)
              /\ custom_ns_tilt' = Some(ns_entry)
              /\ message' = "Girdi Hatasi"
              /\ pc' = "finished"
              /\ UNCHANGED filepath
         ELSE /\ panel_efficiency_decimal' = efficiency_percent
              /\ custom_ew_tilt' = IF custom_position_var THEN Some(ew_entry) ELSE None
              /\ custom_ns_tilt' = IF custom_position_var THEN Some(ns_entry) ELSE None
              /\ IF ~fields_filled
                 THEN /\ message' = "Girdi Hatasi"
                      /\ pc' = "finished"
                      /\ UNCHANGED filepath
                 ELSE IF save_path = ""
                 THEN /\ pc' = "finished"
                      /\ UNCHANGED <<message, filepath>>
                 ELSE /\ filepath' = save_path
                      /\ pc' = "export"
                      /\ UNCHANGED message
    /\ UNCHANGED <<formVars, vectors_df, energyVars, searchVars, tracking_energy_df,
                   optimal_energy_df, custom_energy_df, efficiency_data, canvas>>

\* a direct call of calculate_and_export
CallCalculateAndExport ==
    /\ pc = "idle"
    /\ entry' = "calculate_and_export"
    /\ \E efficiency \in {0, 20}, custom \in DirectCustomTilts, path \in {"", "out.xlsx"} :
         /\ panel_efficiency_decimal' = efficiency
         /\ custom_ew_tilt' = custom[1]
         /\ custom_ns_tilt' = custom[2]
         /\ filepath' = path
    /\ pc' = "export"
    /\ UNCHANGED <<formVars, vectors_df, energyVars, searchVars, tracking_energy_df,
                   optimal_energy_df, custom_energy_df, efficiency_data, message, canvas>>

\* calculate_and_export: the two checks before the try block
ExportValidate ==
    /\ pc = "export"
    /\ IF filepath = ""
       THEN message' = "Hata" /\ pc' = "finished"
       ELSE IF ~(0 < panel_efficiency_decimal /\ panel_efficiency_decimal <= EffScale)
       THEN message' = "Girdi Hatasi" /\ pc' = "finished"
       ELSE pc' = "vectors" /\ UNCHANGED message
    /\ UNCHANGED <<formVars, inputVars, energyVars, searchVars, entry, custom_ew_tilt,
                   custom_ns_tilt, filepath, tracking_energy_df, optimal_energy_df,
                   custom_energy_df, efficiency_data, canvas>>

\* calculate_and_export: vectors_df = calculate_solar_vectors(loc_data, start_year)
SolarVectors ==
    /\ pc = "vectors"
    /\ \E samples \in ProviderSeqs : vectors_df' = calculate_solar_vectors(samples)
    /\ pc' = "tracking"
    /\ UNCHANGED <<formVars, panel_efficiency_decimal, energyVars, searchVars, appVars>>

\* calculate_and_export: the tracking energy, then the call of
\* find_best_fixed_position
TrackingEnergy ==
    /\ pc = "tracking"
    /\ tracking_energy_df' =
         calculate_energy(vectors_df, panel_efficiency_decimal, None, None)
    /\ SearchEntry
    /\ pc' = "coarse"
    /\ UNCHANGED <<formVars, inputVars, energyVars, results, entry, custom_ew_tilt,
                   custom_ns_tilt, filepath, optimal_energy_df, custom_energy_df,
                   efficiency_data, message, canvas>>

\* calculate_and_export: the energy at the returned tilts and at the custom
\* tilts
OptimalAndCustomEnergy ==
    /\ pc = "optimal"
    /\ LET ret == results[Len(results)]
           optimal == calculate_energy(vectors_df, panel_efficiency_decimal,
                                       Some(ret[1]), Some(ret[2]))
       IN  /\ optimal_energy_df' = optimal
           /\ custom_energy_df' =
                IF ~IsNone(custom_ew_tilt) /\ ~IsNone(custom_ns_tilt)
                THEN calculate_energy(vectors_df, panel_efficiency_decimal,
                                      custom_ew_tilt, custom_ns_tilt)
                ELSE optimal
    /\ pc' = "visualize"
    /\ UNCHANGED <<formVars, inputVars, energyVars, searchVars, entry, custom_ew_tilt,
                   custom_ns_tilt, filepath, tracking_energy_df, efficiency_data,
                   message, canvas>>

\* a / b * 100 of create_visualizations; by is the outcome of the division
Ratio(a, b) ==
    IF b = 0
    THEN [by |-> "division by zero", pct |-> 0]
    ELSE [by |-> "division", pct |-> a \div (b \div 100)]

\* create_visualizations: the ratios of the fixed totals to the tracking
\* total.  No test of the tracking total comes before the division.  On a
\* total of 0 a numpy float divides to nan with a warning and the function
\* goes on; a Python float raises ZeroDivisionError, which the except clause
\* of calculate_and_export reports.
CreateVisualizations ==
    /\ pc = "visualize"
    /\ LET tracking_energy == total_energy(tracking_energy_df)
           optimal_energy == total_energy(optimal_energy_df)
           custom_energy == total_energy(custom_energy_df)
       IN  /\ efficiency_data' =
                <<Ratio(optimal_energy, tracking_energy)>> \o
                (IF custom_energy_df # optimal_energy_df
                 THEN <<Ratio(custom_energy, tracking_energy)>> ELSE <<>>)
           /\ \/ pc' = "save" /\ UNCHANGED message
              \/ /\ tracking_energy = 0
                 /\ message' = "Hata"
                 /\ pc' = "finished"
    /\ UNCHANGED <<formVars, inputVars, energyVars, searchVars, entry, custom_ew_tilt,
                   custom_ns_tilt, filepath, tracking_energy_df, optimal_energy_df,
                   custom_energy_df, canvas>>

\* calculate_and_export: the figures and the workbook are written, the
\* monthly figure is returned; on_calculate_click hands it to display_plot
FinishExport ==
    /\ pc = "save"
    /\ message' = "Basarili"
    /\ canvas' = (entry = "on_calculate_click")
    /\ pc' = "finished"
    /\ UNCHANGED <<formVars, inputVars, energyVars, searchVars, entry, custom_ew_tilt,
                   custom_ns_tilt, filepath, tracking_energy_df, optimal_energy_df,
                   custom_energy_df, efficiency_data>>

NextApp ==
    \/ OnCalculateClick
    \/ CallCalculateAndExport
    \/ ExportValidate
    \/ SolarVectors
    \/ TrackingEnergy
    \/ CoarseStep
    \/ FineGrid
    \/ FineStep
    \/ Return
    \/ OptimalAndCustomEnergy
    \/ CreateVisualizations
    \/ FinishExport

SpecApp == InitApp /\ [][NextApp]_vars

-----------------------------------------------------------------------------
(* The form: the entries, the checkbox, the reset button *)

\* what the user types into an entry, the text it starts with included
Typed ==
    [name |-> {"", "Ankara"}, lat |-> {"", "39.9"}, lon |-> {"", "32.8"},
     year_entry |-> {current_year, "1999"}, efficiency_entry |-> {"20", "150"},
     ew_tilt_entry |-> {"0", "45", "120"}, ns_tilt_entry |-> {"0", "45"}]

\* int() and float() of the texts above, in whole units
NumberOf(text) ==
    CASE text = "0" -> 0
      [] text = "20" -> 20
      [] text = "45" -> 45
      [] text = "120" -> 120
      [] text = "150" -> 150
      [] text = "39.9" -> 40
      [] text = "32.8" -> 33
      [] text = "1999" -> 1999
      [] text = current_year -> 2026

InitForm ==
    /\ pc = "mainloop"
    /\ vectors_df = <<>>
    /\ panel_efficiency_decimal = 0
    /\ ew_tilt_deg = None
    /\ ns_tilt_deg = None
    /\ energy_df = <<>>
    /\ panel_normal = <<>>
    /\ idleSearch
    /\ idleApp("SolarTiltPowerApp")
    /\ idleForm

\* everything but the widgets and the canvas
formIdle == <<solpos, inputVars, energyVars, searchVars, entry, custom_ew_tilt,
              custom_ns_tilt, filepath, tracking_energy_df, optimal_energy_df,
              custom_energy_df, efficiency_data, message>>

\* the user edits the name, latitude, longitude, year or efficiency entry,
\* which are always editable
TypeInEntry ==
    /\ \E f \in {"name", "lat", "lon", "year_entry", "efficiency_entry"} :
         \E text \in Typed[f] : form' = [form EXCEPT ![f] = text]
    /\ pc' = "typed"
    /\ UNCHANGED <<formIdle, canvas>>

\* the user picks a time zone in the read-only combobox
SelectTimezone ==
    /\ \E display \in {default_tz_display, "GMT+0"} :
         form' = [form EXCEPT !.tz_combo = display]
    /\ pc' = "typed"
    /\ UNCHANGED <<formIdle, canvas>>

\* the user edits a tilt entry: a disabled entry takes no keystroke
TypeInTiltEntry ==
    /\ \/ /\ form.ew_tilt_state = "normal"
          /\ \E text \in Typed.ew_tilt_entry :
                form' = [form EXCEPT !.ew_tilt_entry = text]
       \/ /\ form.ns_tilt_state = "normal"
          /\ \E text \in Typed.ns_tilt_entry :
                form' = [form EXCEPT !.ns_tilt_entry = text]
    /\ pc' = "typed"
    /\ UNCHANGED <<formIdle, canvas>>

\* toggle_custom_position, applied to a form f
toggle_custom_position(f) ==
    LET state == IF f.custom_position_var THEN "normal" ELSE "disabled"
    IN  [f EXCEPT !.ew_tilt_state = state, !.ns_tilt_state = state]

\* a click on the checkbox inverts its variable and runs its command
ClickCustomPosition ==
    /\ form' = toggle_custom_position(
                  [form EXCEPT !.custom_position_var = ~form.custom_position_var])
    /\ pc' = "toggle_custom_position"
    /\ UNCHANGED <<formIdle, canvas>>

\* entry.delete(0, END) followed by entry.insert(0, text) on a ttk entry in
\* the given state: both are without effect unless the entry is editable
DeleteInsert(state, old, text) == IF state = "normal" THEN text ELSE old

\* reset_inputs, statement by statement: the variable of the checkbox is set
\* to False without its command being run, so the tilt entries are written in
\* the state the last toggle left them in, and are disabled afterwards
ResetInputs ==
    /\ canvas' = FALSE
    /\ form' = toggle_custom_position(
                  [form EXCEPT
                     !.name = "", !.lat = "", !.lon = "",
                     !.tz_combo = default_tz_display,
                     !.year_entry = current_year,
                     !.efficiency_entry = "20",
                     !.custom_position_var = FALSE,
                     !.ew_tilt_entry = DeleteInsert(form.ew_tilt_state, @, "0"),
                     !.ns_tilt_entry = DeleteInsert(form.ns_tilt_state, @, "0")])
    /\ pc' = "reset_inputs"
    /\ UNCHANGED formIdle

\* on_calculate_click on entries that pass every check, with a path chosen
\* and a figure returned: display_plot holds the new canvas; on any other
\* outcome the handler leaves the form and the canvas as they are
CalculateAndDisplay ==
    /\ LET efficiency_percent == NumberOf(form.efficiency_entry)
           start_year == NumberOf(form.year_entry)
           passes ==
               /\ 0 < efficiency_percent /\ efficiency_percent <= 100
               /\ ~(start_year < 1950 \/ start_year > 2100)
               /\ form.custom_position_var =>
                     /\ TiltInRange(NumberOf(form.ew_tilt_entry))
                     /\ TiltInRange(NumberOf(form.ns_tilt_entry))
               /\ form.name # "" /\ form.lat # "" /\ form.lon # ""
       IN  \E fig \in BOOLEAN : canvas' = IF passes /\ fig THEN TRUE ELSE canvas
    /\ pc' = "on_calculate_click"
    /\ UNCHANGED <<formIdle, form>>

NextForm ==
    \/ TypeInEntry
    \/ SelectTimezone
    \/ TypeInTiltEntry
    \/ ClickCustomPosition
    \/ ResetInputs
    \/ CalculateAndDisplay

SpecForm == InitForm /\ [][NextForm]_vars

\* C13 as stated: after reset_inputs, whatever the user did before, no canvas
\* is held, the checkbox is off, both tilt entries are disabled and read "0",
\* the efficiency reads "20", and name, latitude and longitude are empty.
C13_ResetRestoresInitialState ==
    pc = "reset_inputs" =>
        /\ canvas = FALSE
        /\ form.custom_position_var = FALSE
        /\ form.ew_tilt_state = "disabled"
        /\ form.ns_tilt_state = "disabled"
        /\ form.ew_tilt_entry = "0"
        /\ form.ns_tilt_entry = "0"
        /\ form.efficiency_entry = "20"
        /\ form.name = ""
        /\ form.lat = ""
        /\ form.lon = ""

-----------------------------------------------------------------------------
(* Properties of the application *)

InvalidInput ==
    \/ ~ValidEfficiency
    \/ ~IsNone(custom_ew_tilt) /\ ~TiltInRange(custom_ew_tilt[1])
    \/ ~IsNone(custom_ns_tilt) /\ ~TiltInRange(custom_ns_tilt[1])

\* the call is past its checks and a projection, an integration or a grid
\* evaluation has run
Computing ==
    pc \in {"tracking", "coarse", "coarse_done", "fine", "return", "optimal",
            "visualize", "save"}

\* C7 as stated: on a call with an efficiency outside (0, 1] or a tilt outside
\* [-90, 90] no projection, integration or grid evaluation ever runs.
C7_InvalidRejectedBeforeComputation ==
    (entry # "" /\ InvalidInput) => ~Computing

\* C7, what holds of the button handler alone: what it rejects has computed
\* nothing, and what it lets through is valid.
C7_ClickPathValidates ==
    entry = "on_calculate_click" =>
        /\ Computing => ~InvalidInput
        /\ (pc = "finished" /\ InvalidInput) =>
              /\ message = "Girdi Hatasi"
              /\ vectors_df = <<>> /\ tracking_energy_df = <<>> /\ coarse_evals = 0

\* C8 as stated: on a tracking total of 0 no division by that total is
\* executed, and the outcome is reported as DegenerateResult.
C8_ZeroTrackingTotalDetected ==
    (efficiency_data # <<>> /\ total_energy(tracking_energy_df) = 0) =>
        \A k \in 1..Len(efficiency_data) : efficiency_data[k].by = "DegenerateResult"

====
